---- MODULE Spec2Model ----
(***************************************************************************)
(* Model of browsermobproxy/server.py: the Server class that launches the  *)
(* Browsermob-Proxy executable, waits until its port accepts connections   *)
(* (Server.start) and tears it down again (Server.stop).                   *)
(*                                                                         *)
(* The calling thread is the only thread of the program; the supervised    *)
(* child processes and the OS connection table are the environment.        *)
(* Server.start is split at its blocking calls (connect probe, poll,       *)
(* sleep) because the environment moves in between; Server.stop is one     *)
(* step.                                                                   *)
(***************************************************************************)
EXTENDS Integers, Sequences, FiniteSets, TLC

\* ---------------------------------------------------------------- bounds
\* largest retry_count option passed to start
MaxRetries == 2
\* cap on the loop counter of start (the loop is unbounded for retry_count 0)
MaxCount == 2
\* number of start calls on the one Server instance
MaxStarts == 2
\* number of rows of the connection table at the time of the netstat query
MaxRows == 2

\* ------------------------------------------------------------ inputs
\* values of sys.platform
Platforms == {"linux", "win32"}
\* values of options['port'] given to the constructor
Ports == {80, 8080}
\* exit statuses of a child that exits on its own
ExitStatuses == {0, 1}
\* values of options['retry_count'] given to start
RetryCounts == 0..MaxRetries

VARIABLES
  construct,     \* the call of Server.__init__: its inputs (path, os.environ['PATH'],
                 \* the regular files, options['port']), how it ended, and the
                 \* attributes it has set on self
  sys_platform,  \* sys.platform
  port,          \* self.port
  process,       \* self.process: 0 for None, else the index in procs of the Popen's child
  returncode,    \* self.process.returncode: <<>> for None, else <<status>>
  procs,         \* OS view of every child spawned: [st, status]
  listener,      \* index in procs of the child accepting on (host, port), 0 if nobody
  files,         \* every log file object opened by start: "open" / "closed"
  log_file,      \* self.log_file: 0 while the attribute is unset, else index in files
  pc,            \* position of the calling thread: "idle" or a point inside start
  count,         \* local count of start; 0 once another call is made
  retry_count,   \* local retry_count of start; 0 once another call is made
  last_op,       \* the call made last: "none", "start", "stop"
  prev_op,       \* the call made before the last one
  error,         \* exception the last call ended with, "none" if it has not raised
  effects,       \* calls made on the OS by the last call, in order
  lines          \* local lines of stop: rows netstat | findstr printed in the last call

vars == <<construct, sys_platform, port, process, returncode, procs, listener, files,
          log_file, pc, count, retry_count, last_op, prev_op, error, effects,
          lines>>

\* ---------------------------------------------------------------- errors
StartupFailure == "ProxyServerError: failed to start"
StartupTimeout == "ProxyServerError: Can't connect"
LaunchError == "OSError"
Errors == {StartupFailure, StartupTimeout, LaunchError, "AttributeError",
           "ProcessLookupError", "InterruptedError"}

Eff(op, arg) == [op |-> op, arg |-> arg]

\* self.win_env, set in __init__
win_env == sys_platform = "win32"

\* sys.platform.startswith('win') in stop
platform_startswith_win == sys_platform = "win32"

\* returncode of a child ended by Popen.kill: -SIGKILL on POSIX,
\* the code given to TerminateProcess on Windows
KilledStatus == IF win_env THEN 1 ELSE -9

\* ------------------------------------------------- text of the netstat rows
\* A character is a number: 0..9 are the decimal digits, Colon and the
\* letters stand for themselves.  A line is the sequence of its
\* whitespace-separated fields, each field a sequence of characters.
Colon == 10
LetterL == 11
LetterE == 12
LetterT == 13
Dash == 14

RECURSIVE Digits(_)
\* '%d' % n / f'{n}': decimal digits of a natural number
Digits(n) == IF n < 10 THEN <<n>> ELSE Append(Digits(n \div 10), n % 10)

RECURSIVE IntOf(_)
\* int(s) of a string of decimal digits
IntOf(s) == IF Len(s) = 0 THEN 0
            ELSE 10 * IntOf(SubSeq(s, 1, Len(s) - 1)) + s[Len(s)]

\* str.isdigit
IsDigit(s) == Len(s) > 0 /\ \A i \in 1..Len(s) : s[i] \in 0..9

\* sub occurs in s as a contiguous run of characters
Contains(sub, s) ==
  \E i \in 0..(Len(s) - Len(sub)) : SubSeq(s, i + 1, i + Len(sub)) = sub

\* rows of the OS connection table: local port, foreign port, state, owner.
\* A listening socket has no peer (foreign port 0); a client connection goes
\* from an ephemeral local port to the peer's port.
LocalPorts == {5, 80, 8080}
EphemeralPorts == {5}
PeerPorts == {80}
OwnerPids == {0, 7, 80}
\* owner of a row whose last column is not a number
UnknownOwner == -1
RowUniverse ==
  [local : LocalPorts, foreign : {0}, state : {"LISTENING"},
   pid : OwnerPids \cup {UnknownOwner}]
  \cup
  [local : EphemeralPorts, foreign : PeerPorts, state : {"ESTABLISHED"},
   pid : OwnerPids]

RECURSIVE TablesOf(_)
\* the tables of at most n rows
TablesOf(n) ==
  IF n = 0 THEN {{}}
  ELSE LET T == TablesOf(n - 1) IN T \cup {t \cup {r} : t \in T, r \in RowUniverse}

Tables == TablesOf(MaxRows)

StateField(s) == IF s = "LISTENING" THEN <<LetterL>> ELSE <<LetterE>>

\* the last column of a row: the digits of the owner's pid, or a dash
OwnerField(p) == IF p = UnknownOwner THEN <<Dash>> ELSE Digits(p)

\* one line of `netstat -aon`: Proto, Local Address, Foreign Address, State, PID
Line(r) == << <<LetterT>>, <<Colon>> \o Digits(r.local),
              <<Colon>> \o Digits(r.foreign), StateField(r.state),
              OwnerField(r.pid) >>

\* findstr {self.port}: the line contains the port's digits anywhere
\* (the pattern has no blank, so it lies within one field)
findstr(p, line) == \E i \in 1..Len(line) : Contains(Digits(p), line[i])

\* line.split()[-1]
LastField(line) == line[Len(line)]

\* mutant of unique_pids: the test `!= '0'` left out
unique_pids_with_zero(ls) ==
  {LastField(l) : l \in {m \in ls : IsDigit(LastField(m))}}

\* the set comprehension of stop
unique_pids(ls) ==
  {LastField(l) : l \in {m \in ls : IsDigit(LastField(m)) /\ LastField(m) # <<0>>}}

\* orders in which a set can be iterated
Orders(S) == {s \in [1..Cardinality(S) -> S] :
                \A i, j \in 1..Cardinality(S) : i # j => s[i] # s[j]}

\* ------------------------------------------------------------ __init__
\* A string is the sequence of its characters.
BatSuffix == <<".", "b", "a", "t">>

\* str.endswith
EndsWith(s, suf) ==
  Len(s) >= Len(suf) /\ SubSeq(s, Len(s) - Len(suf) + 1, Len(s)) = suf

RECURSIVE split(_, _)
\* str.split(sep): the pieces of s between the occurrences of sep
split(s, sep) ==
  IF \E i \in 1..Len(s) : s[i] = sep
  THEN LET i == CHOOSE k \in 1..Len(s) :
                  s[k] = sep /\ \A j \in 1..(k - 1) : s[j] # sep
       IN << SubSeq(s, 1, i - 1) >> \o split(SubSeq(s, i + 1, Len(s)), sep)
  ELSE << s >>

\* os.path.join(directory, path), "/" standing for the platform's separator
path_join(directory, path) ==
  IF Len(path) > 0 /\ path[1] = "/" THEN path
  ELSE IF directory = <<>> THEN path
  ELSE IF directory[Len(directory)] = "/" THEN directory \o path
  ELSE directory \o <<"/">> \o path

\* platform.system()
platform_system ==
  IF sys_platform = "win32" THEN "Windows"
  ELSE IF sys_platform = "darwin" THEN "Darwin"
  ELSE "Linux"

\* path_var_sep
path_var_sep == IF platform_system = "Windows" THEN ";" ELSE ":"

\* path after `if not path.endswith('.bat'): path += '.bat'` on Windows
path_with_suffix(path) ==
  IF platform_system = "Windows" /\ ~EndsWith(path, BatSuffix)
  THEN path \o BatSuffix
  ELSE path

\* the ProxyServerError of __init__
ConfigurationError == "ProxyServerError: binary couldn't be found"

\* attributes of self that __init__ sets after the check of the path
ServerState == {"path", "host", "port", "process", "command"}

\* Server.__init__ on the inputs c: PATH is <<>> when os.environ has no
\* 'PATH' (the subscript raises KeyError), else << the value >>
Server_init(c) ==
  LET path == path_with_suffix(c.path) IN
  IF c.PATH = <<>>
  THEN [c EXCEPT !.state = "KeyError", !.attrs = {"win_env"}]
  ELSE LET dirs == split(c.PATH[1], path_var_sep)
           exec_not_on_path ==
             ~\E i \in DOMAIN dirs : path_join(dirs[i], path) \in c.isfile
       IN IF path \notin c.isfile /\ exec_not_on_path
          THEN [c EXCEPT !.state = ConfigurationError, !.attrs = {"win_env"}]
          ELSE [c EXCEPT !.state = "constructed",
                         !.attrs = {"win_env"} \cup ServerState,
                         !.self_path = path,
                         !.command = [sh |-> platform_system = "Darwin",
                                      path |-> path, port |-> c.port]]

\* inputs of the constructor
PathArgs == { <<"p">>, <<"p">> \o BatSuffix }
PathValues == { <<>>, <<"d">>, <<"d", ":", "e">>, <<"d", ";", "e">> }
Environs == { <<>> } \cup { <<v>> : v \in PathValues }
Directories == { <<>>, <<"d">>, <<"e">> }
FileSystems == SUBSET { path_join(d, p) : d \in Directories, p \in PathArgs }
NoCommand == [sh |-> FALSE, path |-> <<>>, port |-> 0]

\* the call of __init__ before it has run
NewServer(path, environ, isfile, p) ==
  [path |-> path, PATH |-> environ, isfile |-> isfile, port |-> p,
   state |-> "new", attrs |-> {}, self_path |-> <<>>, command |-> NoCommand]

\* ------------------------------------------------------------ Popen
\* what Popen.poll() returns: the cached returncode, else the status of a
\* child that has exited (which poll reaps), else None
poll == IF returncode # <<>> THEN returncode
        ELSE IF procs[process].st = "zombie" THEN <<procs[process].status>>
        ELSE <<>>

\* the OS process table after Popen.poll(): an exited child is reaped
procs_after_poll ==
  IF returncode = <<>> /\ procs[process].st = "zombie"
  THEN [procs EXCEPT ![process].st = "reaped"]
  ELSE procs

\* RemoteServer._is_listening: a TCP connect to (host, port) succeeds
is_listening == listener # 0

\* `if self.process.poll():` in start: the status is neither None nor 0
start_sees_exit(rc) == rc # <<>> /\ rc # <<0>>

\* mutant of stop_returns_early: the test inverted, `is None`
stop_returns_early_inverted(rc) == rc = <<>>

\* `if self.process.poll() is not None: return` in stop
stop_returns_early(rc) == rc # <<>>

\* result of one execution of stop
Outcome(rc, ps, ls, fs, ln, eff, err) ==
  [returncode |-> rc, procs |-> ps, listener |-> ls, files |-> fs,
   lines |-> ln, effects |-> eff, error |-> err]

\* self.log_file.close()
close_log(fs) == [fs EXCEPT ![log_file] = "closed"]

\* the else branch of stop: os.getpgid(self.process.pid), then
\* os.kill(group_pid, signal.SIGINT), then the close.  The child has been
\* reaped by wait(), so getpgid finds no process of that pid and raises
\* ProcessLookupError, unless the OS has handed the pid to a new process:
\* then os.kill signals the one process whose pid is that process's group id.
group_signal(rc, ps, ls, eff) ==
  { Outcome(rc, ps, ls, files, {}, Append(eff, Eff("getpgid", process)),
            "ProcessLookupError") }
  \cup
  { Outcome(rc, ps, ls, close_log(files), {},
            eff \o << Eff("getpgid", process),
                      Eff("os.kill SIGINT", Len(procs) + 1),
                      Eff("close", log_file) >>,
            "none") }

\* the taskkill loop of stop over unique_pids in iteration order ord, of
\* which the first k succeed; a failing taskkill raises CalledProcessError
taskkill_effects(ord, k) ==
  [i \in 1..(IF k < Len(ord) THEN k + 1 ELSE k) |-> Eff("taskkill", IntOf(ord[i]))]

\* `netstat -aon | findstr {self.port}` on the connection table tbl:
\* the lines printed
netstat_findstr(p, tbl) == {Line(r) : r \in {q \in tbl : findstr(p, Line(q))}}

\* what the query and the taskkill loop can do for each port: the lines the
\* query prints for some connection table, the order in which unique_pids is
\* iterated, and the number k of taskkills that succeed
sweep_runs ==
  [p \in Ports |->
     UNION { { [lines |-> netstat_findstr(p, tbl), ord |-> ord, k |-> k] :
                 ord \in Orders(unique_pids(netstat_findstr(p, tbl))),
                 k \in 0..Cardinality(unique_pids(netstat_findstr(p, tbl))) } :
             tbl \in Tables }]

\* mutant of recovery_sweep: the status of the query is not checked, so a
\* query that prints nothing counts as an empty sweep
recovery_sweep_unchecked(rc, ps, ls, eff) ==
  LET e1 == Append(eff, Eff("netstat", port))
  IN { IF r.k < Len(r.ord)
       THEN Outcome(rc, ps, ls, files, r.lines,
                    e1 \o taskkill_effects(r.ord, r.k), "InterruptedError")
       ELSE Outcome(rc, ps, ls, close_log(files), r.lines,
                    e1 \o taskkill_effects(r.ord, r.k)
                       \o << Eff("close", log_file) >>, "none")
       : r \in sweep_runs[port] }

\* the win branch of stop: the netstat query, the taskkill loop, then the
\* close.  findstr ends with status 1 when no line matches, and check_output
\* raises CalledProcessError; so does a taskkill that fails.
recovery_sweep(rc, ps, ls, eff) ==
  LET e1 == Append(eff, Eff("netstat", port))
  IN { IF r.lines = {}
       THEN Outcome(rc, ps, ls, files, r.lines, e1, "InterruptedError")
       ELSE IF r.k < Len(r.ord)
       THEN Outcome(rc, ps, ls, files, r.lines,
                    e1 \o taskkill_effects(r.ord, r.k), "InterruptedError")
       ELSE Outcome(rc, ps, ls, close_log(files), r.lines,
                    e1 \o taskkill_effects(r.ord, r.k)
                       \o << Eff("close", log_file) >>, "none")
       : r \in sweep_runs[port] }

\* Server.stop, called with the effects eff already made by the caller
stop(eff) ==
  IF process = 0
  THEN \* None has no attribute poll; the call is outside the try
       { Outcome(returncode, procs, listener, files, {}, eff, "AttributeError") }
  ELSE LET e1 == Append(eff, Eff("poll", process)) IN
       IF stop_returns_early(poll)
       THEN { Outcome(poll, procs_after_poll, listener, files, {}, e1, "none") }
       ELSE LET rc == <<KilledStatus>>
                ps == [procs EXCEPT ![process] =
                         [st |-> "reaped", status |-> KilledStatus]]
                ls == IF listener = process THEN 0 ELSE listener
                e2 == e1 \o << Eff("kill", process), Eff("wait", process) >>
            IN IF platform_startswith_win
               THEN recovery_sweep(rc, ps, ls, e2)
               ELSE group_signal(rc, ps, ls, e2)

\* ------------------------------------------------------------ state machine
TypeOK ==
  /\ sys_platform \in Platforms
  /\ port \in Ports
  /\ process \in 0..Len(procs)
  /\ listener \in 0..Len(procs)
  /\ log_file \in 0..Len(files)
  /\ pc \in {"idle", "probe", "poll", "sleep"}
  /\ count \in 0..MaxCount
  /\ retry_count \in RetryCounts
  /\ last_op \in {"none", "start", "stop"}
  /\ prev_op \in {"none", "start", "stop"}
  /\ error \in Errors \cup {"none"}

\* Server.__init__ on a platform, with options['port']
Init ==
  /\ sys_platform \in Platforms
  /\ port \in Ports
  /\ construct = Server_init(NewServer(<<"p">>, << <<"d">> >>,
                                       {<<"d", "/", "p">>,
                                        <<"d", "/", "p">> \o BatSuffix}, port))
  /\ process = 0
  /\ returncode = <<>>
  /\ procs = <<>>
  /\ listener = 0
  /\ files = <<>>
  /\ log_file = 0
  /\ pc = "idle"
  /\ count = 0
  /\ retry_count = 0
  /\ last_op = "none"
  /\ prev_op = "none"
  /\ error = "none"
  /\ effects = <<>>
  /\ lines = {}

\* mutant of StartCall: the OSError of Popen is noted but start goes on to
\* its readiness loop
StartCall_goes_on ==
  /\ pc = "idle"
  /\ Len(files) < MaxStarts
  /\ \E rc \in RetryCounts, oserror \in BOOLEAN, finalised \in BOOLEAN :
       /\ retry_count' = rc
       /\ files' = Append(IF log_file # 0 /\ finalised
                          THEN [files EXCEPT ![log_file] = "closed"]
                          ELSE files, "open")
       /\ log_file' = Len(files) + 1
       /\ last_op' = "start"
       /\ prev_op' = last_op
       /\ lines' = {}
       /\ count' = 0
       /\ effects' = << Eff("open", Len(files) + 1), Eff("Popen", Len(procs) + 1) >>
       /\ IF ~oserror
          THEN /\ procs' = Append(procs, [st |-> "running", status |-> 0])
               /\ process' = Len(procs) + 1
               /\ returncode' = <<>>
               /\ error' = "none"
               /\ pc' = "probe"
          ELSE /\ error' = LaunchError
               /\ pc' = "probe"
               /\ UNCHANGED <<procs, process, returncode>>
  /\ UNCHANGED <<construct, sys_platform, port, listener>>

\* start up to the loop: open the log file, spawn the child, count = 0.
\* Rebinding self.log_file drops the only reference to the previous file
\* object, which the runtime may or may not finalise (and so close).
StartCall ==
  /\ pc = "idle"
  /\ Len(files) < MaxStarts
  /\ \E rc \in RetryCounts, oserror \in BOOLEAN, finalised \in BOOLEAN :
       /\ retry_count' = rc
       /\ files' = Append(IF log_file # 0 /\ finalised
                          THEN [files EXCEPT ![log_file] = "closed"]
                          ELSE files, "open")
       /\ log_file' = Len(files) + 1
       /\ last_op' = "start"
       /\ prev_op' = last_op
       /\ lines' = {}
       /\ count' = 0
       /\ effects' = << Eff("open", Len(files) + 1), Eff("Popen", Len(procs) + 1) >>
       /\ IF ~oserror
          THEN /\ procs' = Append(procs, [st |-> "running", status |-> 0])
               /\ process' = Len(procs) + 1
               /\ returncode' = <<>>
               /\ error' = "none"
               /\ pc' = "probe"
          ELSE /\ error' = LaunchError
               /\ pc' = "idle"
               /\ UNCHANGED <<procs, process, returncode>>
  /\ UNCHANGED <<construct, sys_platform, port, listener>>

\* mutant of Probe: a do-while loop, the first success of the probe is only
\* honoured after a sleep
Probe_after_sleep ==
  /\ pc = "probe"
  /\ effects' = Append(effects, Eff("probe", port))
  /\ pc' = IF is_listening /\ count > 0 THEN "idle" ELSE "poll"
  /\ UNCHANGED <<construct, sys_platform, port, process, returncode, procs, listener, files,
                 log_file, count, retry_count, last_op, prev_op, error, lines>>

\* `while not self._is_listening()`: one connection probe
Probe ==
  /\ pc = "probe"
  /\ effects' = Append(effects, Eff("probe", port))
  /\ pc' = IF is_listening THEN "idle" ELSE "poll"
  /\ UNCHANGED <<construct, sys_platform, port, process, returncode, procs, listener, files,
                 log_file, count, retry_count, last_op, prev_op, error, lines>>

\* `if self.process.poll(): raise ProxyServerError(message)`
Poll ==
  /\ pc = "poll"
  /\ effects' = Append(effects, Eff("poll", process))
  /\ returncode' = poll
  /\ procs' = procs_after_poll
  /\ IF start_sees_exit(poll)
     THEN pc' = "idle" /\ error' = StartupFailure
     ELSE pc' = "sleep" /\ error' = error
  /\ UNCHANGED <<construct, sys_platform, port, process, listener, files, log_file, count,
                 retry_count, last_op, prev_op, lines>>

\* time.sleep(retry_sleep); count += 1; if count == retry_count: self.stop();
\* raise ProxyServerError("Can't connect to Browsermob-Proxy")
Sleep ==
  /\ pc = "sleep"
  /\ count < MaxCount
  /\ count' = count + 1
  /\ IF count + 1 = retry_count
     THEN \E o \in stop(Append(effects, Eff("sleep", count))) :
            /\ returncode' = o.returncode
            /\ procs' = o.procs
            /\ listener' = o.listener
            /\ files' = o.files
            /\ lines' = o.lines
            /\ effects' = o.effects
            /\ error' = IF o.error = "none" THEN StartupTimeout ELSE o.error
            /\ pc' = "idle"
     ELSE /\ effects' = Append(effects, Eff("sleep", count))
          /\ pc' = "probe"
          /\ UNCHANGED <<returncode, procs, listener, files, lines, error>>
  /\ UNCHANGED <<construct, sys_platform, port, process, log_file, retry_count, last_op, prev_op>>

\* a call of Server.stop by the user of the Server
StopCall ==
  /\ pc = "idle"
  /\ \E o \in stop(<<>>) :
       /\ returncode' = o.returncode
       /\ procs' = o.procs
       /\ listener' = o.listener
       /\ files' = o.files
       /\ lines' = o.lines
       /\ effects' = o.effects
       /\ error' = o.error
  /\ last_op' = "stop"
  /\ prev_op' = last_op
  /\ count' = 0
  /\ retry_count' = 0
  /\ UNCHANGED <<construct, sys_platform, port, process, log_file, pc>>

\* environment: a running child exits on its own with some status
ChildExits ==
  \E i \in 1..Len(procs), s \in ExitStatuses :
    /\ procs[i].st = "running"
    /\ procs' = [procs EXCEPT ![i] = [st |-> "zombie", status |-> s]]
    /\ listener' = IF listener = i THEN 0 ELSE listener
    /\ UNCHANGED <<construct, sys_platform, port, process, returncode, files, log_file, pc,
                   count, retry_count, last_op, prev_op, error, effects, lines>>

\* environment: a running child binds the port and accepts connections
ChildListens ==
  \E i \in 1..Len(procs) :
    /\ procs[i].st = "running"
    /\ listener = 0
    /\ listener' = i
    /\ UNCHANGED <<construct, sys_platform, port, process, returncode, procs, files,
                   log_file, pc, count, retry_count, last_op, prev_op, error, effects, lines>>

\* ------------------------------------------------- the constructor alone
\* before Server(path, options): any platform, path, environment and files
InitNew ==
  /\ sys_platform \in Platforms \cup {"darwin"}
  /\ construct \in { NewServer(path, environ, isfile, p) :
                        path \in PathArgs, environ \in Environs,
                        isfile \in FileSystems, p \in Ports }
  /\ port = 0
  /\ process = 0
  /\ returncode = <<>>
  /\ procs = <<>>
  /\ listener = 0
  /\ files = <<>>
  /\ log_file = 0
  /\ pc = "idle"
  /\ count = 0
  /\ retry_count = 0
  /\ last_op = "none"
  /\ prev_op = "none"
  /\ error = "none"
  /\ effects = <<>>
  /\ lines = {}

\* Server(path, options)
Construct ==
  /\ construct.state = "new"
  /\ construct' = Server_init(construct)
  /\ port' = IF construct'.state = "constructed" THEN construct.port ELSE port
  /\ UNCHANGED <<sys_platform, process, returncode, procs, listener, files,
                 log_file, pc, count, retry_count, last_op, prev_op, error,
                 effects, lines>>

SpecInit == InitNew /\ [][Construct]_vars

Next == StartCall \/ Probe \/ Poll \/ Sleep \/ StopCall \/ ChildExits \/ ChildListens

Spec == Init /\ [][Next]_vars
\* ------------------------------------------------------------ properties
\* the last call made an OS call named op
Has(op) == \E i \in DOMAIN effects : effects[i].op = op

\* number of OS calls named op the last call made
Times(op) == Cardinality({i \in DOMAIN effects : effects[i].op = op})

\* position of the first OS call named op in the last call, 0 if none
First(op) == IF Has(op) THEN CHOOSE i \in DOMAIN effects :
                               /\ effects[i].op = op
                               /\ \A j \in 1..(i - 1) : effects[j].op # op
             ELSE 0

Running == {i \in DOMAIN procs : procs[i].st = "running"}
OpenFiles == {i \in DOMAIN files : files[i] = "open"}

\* the last call has returned or raised
Returned == pc = "idle" /\ last_op # "none"

\* C1: in start, a liveness check that finds the process exited (with any
\* status) aborts start at once: start never goes on to sleep with an exit
\* status recorded in the process handle.
C1_ExitAbortsStart ==
  (last_op = "start" /\ pc = "sleep") => returncode = <<>>

\* C2: a start whose stop found the process still alive after the whole
\* retry budget fails with StartupTimeout and no other error, and the
\* process is not running afterwards.
C2_TimeoutAfterStop ==
  (last_op = "start" /\ pc = "idle" /\ Has("kill")) =>
     /\ error = StartupTimeout
     /\ procs[process].st # "running"

\* C3: start makes at most retry_count connection probes and at most
\* retry_count sleeps, for every retry_count including 0.
C3_BoundedRetries ==
  last_op = "start" =>
     /\ Times("probe") <= retry_count
     /\ Times("sleep") <= retry_count

\* C4: where process groups exist, a stop that finds the child running kills
\* and reaps it, then interrupts the child's process group, then closes the
\* log file, and raises nothing.
C4_GroupStop ==
  (~win_env /\ Returned /\ Has("kill")) =>
     /\ error \in {"none", StartupTimeout}
     /\ files[log_file] = "closed"
     /\ \E i \in DOMAIN effects :
          /\ effects[i] = Eff("os.killpg SIGINT", process)
          /\ First("kill") < First("wait")
          /\ First("wait") < i
          /\ i < First("close")

\* C5: stop on a Server whose start was never called raises nothing and
\* changes nothing.
C5_StopBeforeStart ==
  (last_op = "stop" /\ files = <<>>) =>
     /\ error = "none"
     /\ effects = <<>>
     /\ process = 0 /\ returncode = <<>> /\ procs = <<>> /\ log_file = 0

\* C6: a stop that follows a stop on a Server that owns a process handle
\* only polls: no kill, no signal, no sweep, no error, no change of the
\* process, the handle or the log file.
C6_StopIdempotent ==
  [][(last_op = "stop" /\ process # 0 /\ StopCall) =>
       /\ effects' = << Eff("poll", process) >>
       /\ error' = "none"
       /\ UNCHANGED <<process, returncode, procs, listener, files, log_file>>]_vars

\* C6 witness: a second stop in a row has returned on a Server whose child
\* the first stop had killed.
C6_Witness ==
  /\ prev_op = "stop" /\ last_op = "stop"
  /\ process # 0
  /\ returncode = <<KilledStatus>>
  /\ effects = << Eff("poll", process) >>

\* C7: at most one child launched by the Server is alive and at most one log
\* file opened by it is open, whatever calls were made.
C7_OneHandle ==
  /\ Cardinality(Running) <= 1
  /\ Cardinality(OpenFiles) <= 1

\* C8: when stop returns without error on a Server that owns a process
\* handle, the process is not running and the log file is closed.
C8_ReleasedTogether ==
  (last_op = "stop" /\ process # 0 /\ error = "none") =>
     /\ procs[process].st # "running"
     /\ files[log_file] = "closed"

\* C9: when stop raises after it has killed the live child, the log file
\* has been closed all the same.
C9_CloseDespiteError ==
  (last_op = "stop" /\ Has("kill") /\ error # "none") =>
     files[log_file] = "closed"

\* the line is the row of a socket listening on port p
ListensOn(line, p) ==
  line[2] = <<Colon>> \o Digits(p) /\ line[4] = StateField("LISTENING")

\* C10: every process the recovery sweep terminates owns a row of the
\* query's output that is a listener on exactly the configured port.
C10_SweepKillsListenersOnly ==
  \A i \in DOMAIN effects :
    effects[i].op = "taskkill" =>
      \E l \in lines : /\ IntOf(LastField(l)) = effects[i].arg
                       /\ ListensOn(l, port)

\* C11: without process groups, when the connection-table query of the sweep
\* fails (the pipeline prints nothing and ends with a non-zero status), the
\* call ends with InterruptedError, and the child it killed stays killed and
\* reaped.
C11_QueryFailureReported ==
  (Has("netstat") /\ lines = {}) =>
     /\ error = "InterruptedError"
     /\ procs[process].st = "reaped"
     /\ returncode = <<KilledStatus>>
     /\ 0 < First("kill") /\ First("kill") < First("wait")
     /\ First("wait") < First("netstat")

\* C11 witness: a stop on win32 whose query printed nothing has raised.
C11_Witness ==
  /\ win_env /\ last_op = "stop" /\ pc = "idle"
  /\ Has("kill") /\ Has("netstat") /\ lines = {}
  /\ error = "InterruptedError"

\* the executable reference of the call c, after the platform suffix, names
\* a regular file literally or in a directory of the search-path variable
ExecutableFound(c) ==
  LET ref == path_with_suffix(c.path) IN
  \/ ref \in c.isfile
  \/ /\ c.PATH # <<>>
     /\ \E i \in DOMAIN split(c.PATH[1], path_var_sep) :
          path_join(split(c.PATH[1], path_var_sep)[i], ref) \in c.isfile

\* C12: the constructor succeeds exactly when the executable reference is
\* found (literally or on the search path); otherwise it fails with the
\* ProxyServerError of a missing binary and sets none of path, host, port,
\* process, command.
C12_LocatorIff ==
  construct.state # "new" =>
     /\ construct.state = "constructed" <=> ExecutableFound(construct)
     /\ construct.state # "constructed" =>
          /\ construct.state = ConfigurationError
          /\ construct.attrs \cap ServerState = {}

\* C13: when the executable cannot be spawned, start ends at once with the
\* OSError of Popen: it has opened the log file and tried the spawn once,
\* made no probe, liveness check or sleep, and self.process, its returncode
\* and the set of children are as before the call.
C13_LaunchErrorImmediate ==
  [][(StartCall /\ error' = LaunchError) =>
       /\ pc' = "idle"
       /\ effects' = << Eff("open", log_file'), Eff("Popen", Len(procs) + 1) >>
       /\ UNCHANGED <<process, returncode, procs, listener>>]_vars
  /\ [](error = LaunchError =>
          pc = "idle" /\ ~Has("probe") /\ ~Has("poll") /\ ~Has("sleep"))

\* C13 witness: a start has ended with the OSError of a failed spawn.
C13_Witness ==
  /\ last_op = "start" /\ pc = "idle" /\ error = LaunchError
  /\ Times("Popen") = 1

\* C14: start returns normally exactly at a successful probe, the first one:
\* a probe that connects ends start without error; a start that has returned
\* normally made its last OS call a probe, one probe more than sleeps, a
\* liveness check only after a failed probe and none after the last one, no
\* call of stop, and (for retry_count >= 1) fewer sleeps than retry_count.
C14_ReturnsOnFirstSuccess ==
  /\ [][(Probe /\ is_listening) => (pc' = "idle" /\ error' = "none")]_vars
  /\ []((last_op = "start" /\ pc = "idle" /\ error = "none") =>
          /\ effects[Len(effects)].op = "probe"
          /\ Times("probe") = Times("sleep") + 1
          /\ Times("poll") = Times("sleep")
          /\ \A i \in DOMAIN effects :
               effects[i].op = "poll" => effects[i - 1].op = "probe"
          /\ ~Has("kill") /\ ~Has("netstat") /\ ~Has("getpgid")
          /\ (retry_count >= 1 => Times("sleep") < retry_count))

\* C14 witness: with retry_count 2 the second probe was the first to connect
\* and start has returned after one sleep.
C14_Witness ==
  /\ last_op = "start" /\ pc = "idle" /\ error = "none"
  /\ retry_count = 2
  /\ Times("probe") = 2 /\ Times("sleep") = 1

\* C15: in one sweep no pid gets two taskkill requests, however many lines
\* end in it, and every request goes to the value of a numeric last field
\* other than 0: pid 0 and non-numeric last fields get none.
C15_OneTaskkillPerPid ==
  /\ \A i, j \in DOMAIN effects :
       (/\ effects[i].op = "taskkill" /\ effects[j].op = "taskkill"
        /\ effects[i].arg = effects[j].arg) => i = j
  /\ \A i \in DOMAIN effects :
       effects[i].op = "taskkill" =>
         /\ effects[i].arg # 0
         /\ \E l \in lines : /\ IsDigit(LastField(l))
                             /\ IntOf(LastField(l)) = effects[i].arg

\* C15 witness: the query printed two lines that end in the same pid, not 0,
\* and the sweep has run taskkill once.
C15_Witness ==
  /\ \E l, m \in lines : /\ l # m
                         /\ LastField(l) = LastField(m)
                         /\ IsDigit(LastField(l)) /\ LastField(l) # <<0>>
  /\ Times("taskkill") = 1
  /\ error = "none"

\* the last call interrupted the process group of the owned child
GroupInterrupted == \E i \in DOMAIN effects :
                      effects[i] = Eff("os.killpg SIGINT", process)

\* the last call ran the recovery sweep
Swept == Has("netstat")

\* C16: a stop that kills and reaps a running child then performs exactly
\* one termination strategy, the one of the launch mode: the process-group
\* interrupt for a child launched with setsid (not win_env), the recovery
\* sweep for a child launched on win32.
C16_OneStrategy ==
  (Returned /\ Has("kill")) =>
     /\ First("kill") < First("wait")
     /\ (GroupInterrupted /\ ~Swept) \/ (Swept /\ ~GroupInterrupted)
     /\ GroupInterrupted <=> ~win_env
     /\ Swept <=> win_env

\* C17: after a start that failed with the OSError of the spawn, with
\* StartupFailure or with StartupTimeout, the Server owns no running child
\* and the log file opened by that start is closed.
C17_FailedStartReleases ==
  (last_op = "start" /\ pc = "idle"
     /\ error \in {LaunchError, StartupFailure, StartupTimeout}) =>
     /\ process = 0 \/ procs[process].st # "running"
     /\ files[log_file] = "closed"

\* C18: on win32, a stop that has killed and reaped the running child and
\* whose query printed no line ends without error with the log file closed.
C18_EmptySweepSucceeds ==
  (win_env /\ last_op = "stop" /\ Has("kill") /\ Swept /\ lines = {}) =>
     /\ error = "none"
     /\ files[log_file] = "closed"
====
